---- MODULE Spec2Model ----
(***************************************************************************)
(* A model of weeg-storage's StorageItem<T> (src/src/StorageItem.ts): one  *)
(* item bound to a (key, default, area) triple, the host key-value store   *)
(* it wraps, the host's change notifications, and the item's observers.    *)
(*                                                                         *)
(* The host round trips (area.get / area.set / area.remove) are two steps  *)
(* each: the host acts on the store, and later the promise resolves in the *)
(* extension. Change notifications wait in a FIFO queue until the host     *)
(* raises them. Everything else in a method body runs in one step, as the  *)
(* single-threaded event loop runs it.                                     *)
(***************************************************************************)
EXTENDS Integers, Sequences, FiniteSets

\* ------------------------------------------------------------------ bounds

\* Stored values are 1..MaxValue.
MaxValue == 2
\* API calls, foreign writes and changes of the host API's availability made
\* in one behaviour.
MaxCalls == 3

\* ------------------------------------------------------------- the domain

\* JavaScript's undefined: what the store yields for an absent key.
Undefined == 0
Values == 1..MaxValue
MaybeValues == Values \cup {Undefined}

AREA_LOCAL == "local"
AREA_SYNC == "sync"
AREA_MANAGED == "managed"
Areas == {AREA_LOCAL, AREA_SYNC, AREA_MANAGED}
\* What a caller may pass as the constructor's area: the type is erased at
\* run time, so any string can arrive.
AreaArgs == Areas \cup {"bogus"}
\* The private field `area` left unset (undefined).
NoArea == "none"

Keys == {"k1", "k2"}
Callbacks == {"cbA", "cbB"}
NoCb == "none"

VARIABLES
    hostAvailable,  \* whether browser.storage exists in this context now
    item,           \* the StorageItem (or that its construction threw)
    store,          \* the host store: area -> key -> value or Undefined
    events,         \* host change notifications not yet raised (FIFO)
    observers,      \* the item's observer Set, in insertion order
    unobserved,     \* callbacks whose unobserve returned and were not re-observed
    reads,          \* getValue / hasValue / observe reads in flight
    writes,         \* setValue / clearValue writes in flight
    settled,        \* the item's last completed write, while no other write followed
    calls,          \* API calls and foreign writes made so far
    globalObserver, \* the GlobalStorageObserver module, as loading it left it
    delivered,      \* per callback observed with a report: the last value it got
    \* What the step that led to this state did (each is empty after any
    \* other kind of step):
    lastCall,       \* the constructor, write or observer call made, and how it ended
    lastRead,       \* the getValue / hasValue that returned
    lastReport,     \* the initial report of observe(cb, true) that ran
    lastDispatch,   \* the change notification the item's listener was run on
    lastGlobal      \* the change notification GlobalStorageObserver forwarded

vars == <<hostAvailable, item, store, events, observers, unobserved, reads,
          writes, settled, calls, globalObserver, delivered, lastCall, lastRead,
          lastReport, lastDispatch, lastGlobal>>

\* ----------------------------------------------------------------- helpers

RemoveAt(s, i) == [j \in 1..(Len(s) - 1) |-> IF j < i THEN s[j] ELSE s[j + 1]]

Range(s) == {s[i] : i \in DOMAIN s}

\* Set.prototype.add: appends unless present (a Set iterates in insertion order).
SetAdd(s, x) == IF x \in Range(s) THEN s ELSE Append(s, x)

\* Set.prototype.delete.
SetDelete(s, x) == SelectSeq(s, LAMBDA y : y # x)

\* ------------------------------------------------- StorageItem: pure parts

NoItem ==
    [state |-> "unconstructed", key |-> "", defaultValue |-> Undefined,
     areaName |-> "", area |-> NoArea, listening |-> FALSE]

\* The constructor registering its listener before the availability test.
Constructor_ListensFirst(key, dflt, areaArg, avail) ==
    IF ~avail
    THEN [state |-> "constructed", key |-> key, defaultValue |-> dflt,
          areaName |-> areaArg, area |-> NoArea, listening |-> TRUE]
    ELSE IF areaArg \in {AREA_LOCAL, AREA_SYNC, AREA_MANAGED}
    THEN [state |-> "constructed", key |-> key, defaultValue |-> dflt,
          areaName |-> areaArg, area |-> areaArg, listening |-> TRUE]
    ELSE [NoItem EXCEPT !.state = "threw"]

\* constructor(key, defaultValue, area), with `avail` = !!browser.storage.
\* areaName is assigned before the availability test; the switch, its throw
\* and the listener registration come after the early return.
Constructor(key, dflt, areaArg, avail) ==
    IF ~avail
    THEN [state |-> "constructed", key |-> key, defaultValue |-> dflt,
          areaName |-> areaArg, area |-> NoArea, listening |-> FALSE]
    ELSE IF areaArg \in {AREA_LOCAL, AREA_SYNC, AREA_MANAGED}
    THEN [state |-> "constructed", key |-> key, defaultValue |-> dflt,
          areaName |-> areaArg, area |-> areaArg, listening |-> TRUE]
    ELSE [NoItem EXCEPT !.state = "threw"]

\* The outcome the constructor call has for its caller.
ConstructorOutcome(it) == IF it.state = "threw" THEN "invalid-area" ELSE "ok"

\* setValue with the area test moved before the managed test.
setValueGuard_AreaFirst(it) ==
    IF it.area = NoArea THEN "noop"
    ELSE IF it.areaName = "managed" THEN "not-permitted"
    ELSE "write"

\* setValue up to its await: throw, return, or ask the host to write.
setValueGuard(it) ==
    IF it.areaName = "managed" THEN "not-permitted"
    ELSE IF it.area = NoArea THEN "noop"
    ELSE "write"

\* clearValue without its `if (!this.area) return`.
clearValueGuard_NoAreaTest(it) ==
    IF it.areaName = "managed" THEN "not-permitted" ELSE "write"

\* clearValue up to its await.
clearValueGuard(it) ==
    IF it.areaName = "managed" THEN "not-permitted"
    ELSE IF it.area = NoArea THEN "noop"
    ELSE "write"

\* setValue writing under another key than the item's.
setValueRequest_OtherKey(it, v) ==
    [kind |-> "set", area |-> it.area,
     key |-> CHOOSE k \in Keys : k # it.key, value |-> v,
     pc |-> "wait", superseded |-> FALSE]

\* The request setValue hands to the host: area.set({[key]: value}).
setValueRequest(it, v) ==
    [kind |-> "set", area |-> it.area, key |-> it.key, value |-> v,
     pc |-> "wait", superseded |-> FALSE]

\* clearValue storing the default value instead of removing the key.
clearValueRequest_StoreDefault(it) ==
    [kind |-> "clear", area |-> it.area, key |-> it.key,
     value |-> it.defaultValue, pc |-> "wait", superseded |-> FALSE]

\* The request clearValue hands to the host: area.remove(key).
clearValueRequest(it) ==
    [kind |-> "clear", area |-> it.area, key |-> it.key, value |-> Undefined,
     pc |-> "wait", superseded |-> FALSE]

\* getRawValue's `if (!this.area) return undefined`: whether a host read starts.
getRawValueAsksHost(it) == it.area # NoArea

\* getRawValue without its try / catch: a read that throws is thrown on.
getRawValue_NoCatch(raw, failed) ==
    [value |-> IF failed THEN Undefined ELSE raw, threw |-> failed]

\* getRawValue after its await: data[key]; the catch turns a read that threw
\* into undefined, and nothing is thrown on.
getRawValue(raw, failed) ==
    [value |-> IF failed THEN Undefined ELSE raw, threw |-> FALSE]

\* getValue without its fallback to the default value.
getValueResult_NoDefault(it, raw) == raw

hasValueResult(raw) == raw # Undefined

getValueResult(it, raw) == IF raw = Undefined THEN it.defaultValue ELSE raw

\* observers kept as an array: push instead of Set.prototype.add.
observersAdd_Push(obs, cb) == Append(obs, cb)

\* observers.add(callback) / observers.delete(callback).
observersAdd(obs, cb) == SetAdd(obs, cb)
observersDelete(obs, cb) == SetDelete(obs, cb)

\* The listener without its area test.
ListenerMatches_AnyArea(it, ev) == it.key \in DOMAIN ev.changes

\* The early returns of the onChanged listener: the key is not in changes, or
\* the area name differs. (The third, `if (!change) return`, never fires: a key
\* in changes maps to a StorageChange object.)
ListenerMatches(it, ev) ==
    /\ it.key \in DOMAIN ev.changes
    /\ ev.areaName = it.areaName

\* const value = undefined !== newValue ? newValue : this.defaultValue
ListenerValue(it, ev) ==
    LET newValue == ev.changes[it.key].newValue
    IN  IF Undefined # newValue THEN newValue ELSE it.defaultValue

\* The observers called from the last registered to the first.
ForEachInvoked_Reversed(obs, throwAt) ==
    LET n == IF throwAt = 0 THEN Len(obs) ELSE throwAt
    IN  [j \in 1..n |-> obs[Len(obs) + 1 - j]]

\* try { observers.forEach(observer => observer(value)) } catch: the observers
\* called when the throwAt-th one throws (0: none throws). The try encloses the
\* whole forEach, so the first throw ends the iteration.
ForEachInvoked(obs, throwAt) ==
    IF throwAt = 0 THEN obs ELSE SubSeq(obs, 1, throwAt)

\* The listener the constructor registers, run on one change notification:
\* what it dispatched on the onChanged sink (an EventSink of weeg-events, taken
\* here to deliver and return) and which observers it called.
Listener(it, obs, ev, throwAt) ==
    IF ~ListenerMatches(it, ev)
    THEN [event |-> ev, matched |-> FALSE, sink |-> <<>>, invoked |-> <<>>,
          value |-> Undefined, registered |-> obs, throwAt |-> 0,
          propagated |-> FALSE]
    ELSE [event |-> ev, matched |-> TRUE,
          sink |-> <<ListenerValue(it, ev)>>,
          invoked |-> ForEachInvoked(obs, throwAt),
          value |-> ListenerValue(it, ev),
          registered |-> obs, throwAt |-> throwAt,
          propagated |-> FALSE]

\* ------------------------------------------------------------ the host

\* area.set / area.remove applied to the store.
HostApply(st, w) == [st EXCEPT ![w.area][w.key] = w.value]

\* The notification the host queues for a write: the keys whose value changed,
\* each with its old and new value; none when nothing changed.
ChangedKeys(old, new, area) == {k \in Keys : old[area][k] # new[area][k]}

ChangeEvent(old, new, area) ==
    [areaName |-> area,
     changes |-> [k \in ChangedKeys(old, new, area) |->
                    [oldValue |-> old[area][k], newValue |-> new[area][k]]]]

Notify(q, old, new, area) ==
    IF ChangedKeys(old, new, area) = {} THEN q
    ELSE Append(q, ChangeEvent(old, new, area))

NoSettled == [kind |-> "none", value |-> Undefined]

NoEvent == [areaName |-> "", changes |-> [k \in {} |-> Undefined]]

NoCall == [op |-> "none", outcome |-> "none", area |-> ""]

NoRead ==
    [kind |-> "none", has |-> FALSE, value |-> Undefined, raw |-> Undefined,
     failed |-> FALSE, threw |-> FALSE, expect |-> NoSettled]

NoReport ==
    [cb |-> NoCb, value |-> Undefined, raw |-> Undefined, sawChange |-> FALSE,
     late |-> FALSE]

NoDispatch == Listener(NoItem, <<>>, NoEvent, 0)

\* ---------------------------------------------------- GlobalStorageObserver

\* Loading the module: its top-level statement reads browser.storage.onChanged
\* with no test of browser.storage, so it registers the listener when the API
\* is there and throws a TypeError (the module fails to load) when it is not.
ModuleLoad(avail) ==
    IF avail THEN [listening |-> TRUE, error |-> "none"]
    ELSE [listening |-> FALSE, error |-> "TypeError"]

\* The module's listener without the area name in what it forwards.
GlobalListener_DropsArea(ev) == <<[changes |-> ev.changes, areaName |-> ""]>>

\* The module's listener on one change notification: what it dispatches on
\* GlobalStorageObserver.onChanged.
GlobalListener(ev) == <<[changes |-> ev.changes, areaName |-> ev.areaName]>>

NoGlobal == [event |-> NoEvent, dispatched |-> <<>>]

\* What the module did with a notification the host raised.
Forwarded(g, ev) ==
    IF g.listening THEN [event |-> ev, dispatched |-> GlobalListener(ev)]
    ELSE NoGlobal

\* A callback that no observe(cb, true) in force registered.
NotReporting == -1

\* The last values the callbacks got, after the callbacks cbs were called
\* with v.
Deliver(d, cbs, v) ==
    [cb \in Callbacks |->
        IF cb \in cbs /\ d[cb] # NotReporting THEN v ELSE d[cb]]

\* The record of a step: what it did, and nothing of the steps before it.
Log(call, read, report, dispatch, global) ==
    /\ lastCall' = call
    /\ lastRead' = read
    /\ lastReport' = report
    /\ lastDispatch' = dispatch
    /\ lastGlobal' = global

\* The store of a fresh installation: no key is set in any area.
EmptyStore == [a \in Areas |-> [k \in Keys |-> Undefined]]

Init ==
    /\ hostAvailable \in BOOLEAN
    /\ item = NoItem
    /\ store = EmptyStore
    /\ events = <<>>
    /\ observers = <<>>
    /\ unobserved = {}
    /\ reads = <<>>
    /\ writes = <<>>
    /\ settled = NoSettled
    /\ calls = 0
    /\ globalObserver = ModuleLoad(hostAvailable)
    /\ delivered = [cb \in Callbacks |-> NotReporting]
    /\ lastCall = NoCall
    /\ lastRead = NoRead
    /\ lastReport = NoReport
    /\ lastDispatch = NoDispatch
    /\ lastGlobal = NoGlobal

Constructed == item.state = "constructed"

\* new StorageItem(key, dflt, areaArg)
Construct(key, dflt, areaArg) ==
    /\ item.state = "unconstructed"
    /\ item' = Constructor(key, dflt, areaArg, hostAvailable)
    /\ Log([op |-> "construct", outcome |-> ConstructorOutcome(item'),
            area |-> areaArg], NoRead, NoReport, NoDispatch, NoGlobal)
    /\ UNCHANGED <<hostAvailable, delivered, globalObserver, store, events,
                   observers, unobserved, reads, writes, settled, calls>>

\* item.setValue(v), up to the host request.
setValue(v) ==
    /\ Constructed
    /\ calls < MaxCalls
    /\ calls' = calls + 1
    /\ writes' = IF setValueGuard(item) = "write"
                 THEN Append(writes, setValueRequest(item, v))
                 ELSE writes
    /\ Log([op |-> "setValue", outcome |-> setValueGuard(item),
            area |-> item.areaName], NoRead, NoReport, NoDispatch, NoGlobal)
    /\ UNCHANGED <<hostAvailable, delivered, globalObserver, item, store,
                   events, observers, unobserved, reads, settled>>

\* clearValue resolving browser.storage and the area again on each call.
clearValue_Rebinding ==
    /\ Constructed
    /\ calls < MaxCalls
    /\ calls' = calls + 1
    /\ item' = Constructor(item.key, item.defaultValue, item.areaName,
                           hostAvailable)
    /\ writes' = IF clearValueGuard(item) = "write"
                 THEN Append(writes, clearValueRequest(item))
                 ELSE writes
    /\ Log([op |-> "clearValue", outcome |-> clearValueGuard(item),
            area |-> item.areaName], NoRead, NoReport, NoDispatch, NoGlobal)
    /\ UNCHANGED <<hostAvailable, delivered, globalObserver, store, events,
                   observers, unobserved, reads, settled>>

\* item.clearValue(), up to the host request.
clearValue ==
    /\ Constructed
    /\ calls < MaxCalls
    /\ calls' = calls + 1
    /\ writes' = IF clearValueGuard(item) = "write"
                 THEN Append(writes, clearValueRequest(item))
                 ELSE writes
    /\ Log([op |-> "clearValue", outcome |-> clearValueGuard(item),
            area |-> item.areaName], NoRead, NoReport, NoDispatch, NoGlobal)
    /\ UNCHANGED <<hostAvailable, delivered, globalObserver, item, store,
                   events, observers, unobserved, reads, settled>>

\* Every write the host already applied to the same key is no longer the last.
Supersede(ws, area, keys) ==
    [j \in DOMAIN ws |->
        IF ws[j].pc = "applied" /\ ws[j].area = area /\ ws[j].key \in keys
        THEN [ws[j] EXCEPT !.superseded = TRUE]
        ELSE ws[j]]

\* The host carries out the i-th pending area.set / area.remove.
HostWrite(i) ==
    /\ i \in DOMAIN writes
    /\ writes[i].pc = "wait"
    /\ store' = HostApply(store, writes[i])
    /\ events' = Notify(events, store, store', writes[i].area)
    /\ writes' = [Supersede(writes, writes[i].area, {writes[i].key})
                    EXCEPT ![i].pc = "applied"]
    /\ settled' = NoSettled
    /\ Log(NoCall, NoRead, NoReport, NoDispatch, NoGlobal)
    /\ UNCHANGED <<hostAvailable, delivered, globalObserver, item, observers,
                   unobserved, reads, calls>>

\* The promise of the i-th write resolves: setValue / clearValue has completed.
WriteReturn(i) ==
    /\ i \in DOMAIN writes
    /\ writes[i].pc = "applied"
    /\ writes' = RemoveAt(writes, i)
    /\ settled' = IF writes[i].superseded THEN settled
                  ELSE [kind |-> writes[i].kind, value |-> writes[i].value]
    /\ Log(NoCall, NoRead, NoReport, NoDispatch, NoGlobal)
    /\ UNCHANGED <<hostAvailable, delivered, globalObserver, item, store,
                   events, observers, unobserved, reads, calls>>

\* Another actor (another extension page, the sync service, the administrator)
\* writes v to the keys ks of an area, or removes them (v = Undefined).
ForeignWrite(area, ks, v) ==
    /\ calls < MaxCalls
    /\ calls' = calls + 1
    /\ store' = [store EXCEPT ![area] =
                    [k \in Keys |-> IF k \in ks THEN v ELSE store[area][k]]]
    /\ events' = Notify(events, store, store', area)
    /\ writes' = Supersede(writes, area, ks)
    /\ settled' = IF area = item.area /\ item.key \in ks THEN NoSettled
                  ELSE settled
    /\ Log([op |-> "foreign", outcome |-> "ok", area |-> area],
           NoRead, NoReport, NoDispatch, NoGlobal)
    /\ UNCHANGED <<hostAvailable, delivered, globalObserver, item, observers,
                   unobserved, reads>>

\* browser.storage appears or disappears (a permission is granted or revoked).
\* An item keeps the area object and the listener its constructor took.
HostAvailabilityChange ==
    /\ calls < MaxCalls
    /\ calls' = calls + 1
    /\ hostAvailable' = ~hostAvailable
    /\ Log(NoCall, NoRead, NoReport, NoDispatch, NoGlobal)
    /\ UNCHANGED <<globalObserver, delivered, item, store, events, observers,
                   unobserved, reads, writes, settled>>

\* A read as getRawValue starts it: waiting for the host, or (no area) already
\* resolved to undefined.
StartRead(kind, cb) ==
    [kind |-> kind, cb |-> cb,
     pc |-> IF getRawValueAsksHost(item) THEN "wait" ELSE "resolved",
     raw |-> Undefined, failed |-> FALSE, expect |-> NoSettled,
     sawChange |-> FALSE]

\* item.getValue(), up to the host request.
getValue ==
    /\ Constructed
    /\ calls < MaxCalls
    /\ calls' = calls + 1
    /\ reads' = Append(reads, StartRead("getValue", NoCb))
    /\ Log(NoCall, NoRead, NoReport, NoDispatch, NoGlobal)
    /\ UNCHANGED <<hostAvailable, delivered, globalObserver, item, store,
                   events, observers, unobserved, writes, settled>>

\* item.hasValue(), up to the host request.
hasValue ==
    /\ Constructed
    /\ calls < MaxCalls
    /\ calls' = calls + 1
    /\ reads' = Append(reads, StartRead("hasValue", NoCb))
    /\ Log(NoCall, NoRead, NoReport, NoDispatch, NoGlobal)
    /\ UNCHANGED <<hostAvailable, delivered, globalObserver, item, store,
                   events, observers, unobserved, writes, settled>>

\* item.observe(cb, reportCurrentValue)
observe(cb, reportCurrentValue) ==
    /\ Constructed
    /\ calls < MaxCalls
    /\ calls' = calls + 1
    /\ reads' = IF reportCurrentValue
                THEN Append(reads, StartRead("report", cb))
                ELSE reads
    /\ observers' = observersAdd(observers, cb)
    /\ unobserved' = unobserved \ {cb}
    /\ delivered' = IF reportCurrentValue /\ delivered[cb] = NotReporting
                    THEN [delivered EXCEPT ![cb] = Undefined]
                    ELSE delivered
    /\ Log([op |-> "observe",
            outcome |-> IF cb \in Range(observers) THEN "present" ELSE "added",
            area |-> item.areaName], NoRead, NoReport, NoDispatch, NoGlobal)
    /\ UNCHANGED <<hostAvailable, globalObserver, item, store, events, writes,
                   settled>>

\* item.unobserve(cb)
unobserve(cb) ==
    /\ Constructed
    /\ calls < MaxCalls
    /\ calls' = calls + 1
    /\ observers' = observersDelete(observers, cb)
    /\ unobserved' = unobserved \cup {cb}
    /\ delivered' = [delivered EXCEPT ![cb] = NotReporting]
    /\ Log([op |-> "unobserve",
            outcome |-> IF cb \in Range(observers) THEN "present" ELSE "absent",
            area |-> item.areaName], NoRead, NoReport, NoDispatch, NoGlobal)
    /\ UNCHANGED <<hostAvailable, globalObserver, item, store, events, reads,
                   writes, settled>>

\* The host carries out the i-th pending area.get(key). Reading the managed
\* area may throw while it is uninitialized (it holds nothing).
HostGet(i, fail) ==
    /\ i \in DOMAIN reads
    /\ reads[i].pc = "wait"
    /\ fail => /\ item.area = AREA_MANAGED
               /\ store[AREA_MANAGED] = EmptyStore[AREA_MANAGED]
    /\ reads' = [reads EXCEPT ![i] =
                    [@ EXCEPT !.pc = "resolved",
                              !.raw = IF fail THEN Undefined
                                      ELSE store[item.area][item.key],
                              !.failed = fail,
                              !.expect = settled]]
    /\ Log(NoCall, NoRead, NoReport, NoDispatch, NoGlobal)
    /\ UNCHANGED <<hostAvailable, delivered, globalObserver, item, store,
                   events, observers, unobserved, writes, settled, calls>>

\* What getValue / hasValue hand their caller once read r has settled.
ReadResult(r) ==
    LET got == getRawValue(r.raw, r.failed)
    IN  CASE r.kind = "getValue" ->
               [kind |-> "getValue", has |-> FALSE,
                value |-> getValueResult(item, got.value), raw |-> got.value,
                failed |-> r.failed, threw |-> got.threw, expect |-> r.expect]
          [] r.kind = "hasValue" ->
               [kind |-> "hasValue", has |-> hasValueResult(got.value),
                value |-> Undefined, raw |-> got.value,
                failed |-> r.failed, threw |-> got.threw, expect |-> r.expect]
          [] OTHER -> NoRead

\* What observe's getValue().then(callback) hands the callback.
ReportResult(r) ==
    LET got == getRawValue(r.raw, r.failed)
    IN  IF r.kind = "report"
        THEN [cb |-> r.cb, value |-> getValueResult(item, got.value),
              raw |-> got.value, sawChange |-> r.sawChange,
              late |-> r.cb \in unobserved]
        ELSE NoReport

\* The i-th read's promise settles: getValue / hasValue return to their caller,
\* or observe's then(callback) runs the callback.
ReadReturn(i) ==
    /\ i \in DOMAIN reads
    /\ reads[i].pc = "resolved"
    /\ reads' = RemoveAt(reads, i)
    /\ delivered' = IF reads[i].kind = "report"
                    THEN Deliver(delivered, {reads[i].cb},
                                 ReportResult(reads[i]).value)
                    ELSE delivered
    /\ Log(NoCall, ReadResult(reads[i]), ReportResult(reads[i]), NoDispatch, NoGlobal)
    /\ UNCHANGED <<hostAvailable, globalObserver, item, store, events,
                   observers, unobserved, writes, settled, calls>>

\* The pending initial reports whose callback a notification has just called.
MarkSawChange(rs, cbs) ==
    [j \in DOMAIN rs |->
        IF rs[j].kind = "report" /\ rs[j].cb \in cbs
        THEN [rs[j] EXCEPT !.sawChange = TRUE]
        ELSE rs[j]]

\* The host raises its oldest queued change notification; the item's listener,
\* when one was registered, runs on it. throwAt: which observer throws (0: none).
DeliverEvent(throwAt) ==
    /\ events # <<>>
    /\ events' = Tail(events)
    /\ IF Constructed /\ item.listening
       THEN /\ throwAt \in 0..Len(observers)
            /\ throwAt > 0 => ListenerMatches(item, Head(events))
            /\ Log(NoCall, NoRead, NoReport,
                   Listener(item, observers, Head(events), throwAt),
                   Forwarded(globalObserver, Head(events)))
            /\ reads' = MarkSawChange(reads, Range(lastDispatch'.invoked))
            /\ delivered' = Deliver(delivered, Range(lastDispatch'.invoked),
                                    lastDispatch'.value)
       ELSE /\ throwAt = 0
            /\ Log(NoCall, NoRead, NoReport, NoDispatch,
                   Forwarded(globalObserver, Head(events)))
            /\ UNCHANGED <<reads, delivered>>
    /\ UNCHANGED <<hostAvailable, globalObserver, item, store, observers,
                   unobserved, writes, settled, calls>>

Next ==
    \/ \E key \in Keys, dflt \in Values, areaArg \in AreaArgs :
          Construct(key, dflt, areaArg)
    \/ \E v \in Values : setValue(v)
    \/ clearValue
    \/ getValue
    \/ hasValue
    \/ \E cb \in Callbacks, reportCurrentValue \in BOOLEAN :
          observe(cb, reportCurrentValue)
    \/ \E cb \in Callbacks : unobserve(cb)
    \/ \E i \in 1..MaxCalls : HostWrite(i)
    \/ \E i \in 1..MaxCalls : WriteReturn(i)
    \/ \E i \in 1..MaxCalls, fail \in BOOLEAN : HostGet(i, fail)
    \/ \E i \in 1..MaxCalls : ReadReturn(i)
    \/ \E area \in Areas, ks \in (SUBSET Keys) \ {{}}, v \in MaybeValues :
          ForeignWrite(area, ks, v)
    \/ \E throwAt \in 0..Cardinality(Callbacks) : DeliverEvent(throwAt)
    \/ HostAvailabilityChange

Spec == Init /\ [][Next]_vars

\* ------------------------------------------------------------ properties

WritableAreas == {AREA_LOCAL, AREA_SYNC}

\* The effective value: the stored value, or the default when there is none.
Effective(raw) == IF raw = Undefined THEN item.defaultValue ELSE raw

\* C1: on an active local or sync item, a getValue whose host read follows a
\* completed setValue(v), with no other write to that key of that area in
\* between, returns v.
C1_SetThenGet ==
    (/\ lastRead.kind = "getValue"
     /\ lastRead.expect.kind = "set"
     /\ item.area \in WritableAreas)
    => lastRead.value = lastRead.expect.value

C1_Witness ==
    /\ lastRead.kind = "getValue"
    /\ lastRead.expect.kind = "set"
    /\ item.area \in WritableAreas
    /\ lastRead.value = lastRead.expect.value
    /\ lastRead.value # item.defaultValue

\* C2: setValue and clearValue on an item whose area is managed end in the
\* not-permitted error and hand the host no write, whether or not the host
\* storage API was there at construction.
C2_ManagedWritesRejected ==
    (Constructed /\ item.areaName = AREA_MANAGED)
    => /\ writes = <<>>
       /\ lastCall.op \in {"setValue", "clearValue"}
             => lastCall.outcome = "not-permitted"

C2_Witness ==
    /\ item.areaName = AREA_MANAGED
    /\ item.area = NoArea
    /\ lastCall.op = "clearValue"
    /\ lastCall.outcome = "not-permitted"
    /\ store[AREA_MANAGED][item.key] # Undefined

\* C3: the initial report of observe(callback, true) carries the effective
\* value of its read, and no change notification has called the callback
\* between the observe call and that report.
C3_InitialReportFirst ==
    lastReport.cb # NoCb
    => /\ lastReport.value = Effective(lastReport.raw)
       /\ ~lastReport.sawChange

\* C4: a callback is never called once unobserve(cb) has returned (and cb was
\* not registered again), neither by a change notification nor by the initial
\* report of an earlier observe(cb, true).
C4_NoCallAfterUnobserve ==
    /\ ~lastReport.late
    /\ \A i \in DOMAIN lastDispatch.invoked :
          lastDispatch.invoked[i] \notin unobserved

\* C5: when an observer throws during the delivery of a matching change, the
\* error does not leave the listener and every callback of the observer set is
\* still called for that change.
C5_ThrowDoesNotStopOthers ==
    (lastDispatch.matched /\ lastDispatch.throwAt > 0)
    => /\ ~lastDispatch.propagated
       /\ Range(lastDispatch.invoked) = Range(lastDispatch.registered)

\* C6: a change notification of another area, or one whose changes do not hold
\* the item's key, calls no observer and dispatches nothing on the sink.
C6_NonMatchingIgnored ==
    (/\ Constructed
     /\ lastDispatch.event.areaName # ""
     /\ \/ lastDispatch.event.areaName # item.areaName
        \/ item.key \notin DOMAIN lastDispatch.event.changes)
    => /\ lastDispatch.sink = <<>>
       /\ lastDispatch.invoked = <<>>

C6_Witness ==
    /\ Constructed
    /\ item.listening
    /\ lastDispatch.event.areaName \in Areas \ {item.areaName}
    /\ item.key \in DOMAIN lastDispatch.event.changes
    /\ lastDispatch.registered # <<>>
    /\ lastDispatch.invoked = <<>>
    /\ lastDispatch.sink = <<>>

\* C7: for every change notification of the item's area that holds the item's
\* key, the sink and every registered observer get the new value, or the
\* default when the notification has no new value.
C7_EffectiveValueDelivered ==
    (/\ Constructed
     /\ item.listening
     /\ lastDispatch.event.areaName = item.areaName
     /\ item.key \in DOMAIN lastDispatch.event.changes)
    => LET v == Effective(lastDispatch.event.changes[item.key].newValue)
       IN  /\ lastDispatch.sink = <<v>>
           /\ lastDispatch.value = v
           /\ lastDispatch.invoked = lastDispatch.registered

\* C8: on an active local or sync item, a hasValue / getValue whose host read
\* follows a completed clearValue, with no other write to that key of that area
\* in between, returns false / the default value.
C8_ClearThenRead ==
    (lastRead.expect.kind = "clear" /\ item.area \in WritableAreas)
    => /\ lastRead.kind = "hasValue" => ~lastRead.has
       /\ lastRead.kind = "getValue" => lastRead.value = item.defaultValue

C8_Witness ==
    /\ lastRead.kind = "hasValue"
    /\ lastRead.expect.kind = "clear"
    /\ item.area \in WritableAreas
    /\ ~lastRead.has
    /\ \E i \in DOMAIN events :
          /\ events[i].areaName = item.areaName
          /\ item.key \in DOMAIN events[i].changes
          /\ events[i].changes[item.key].oldValue # Undefined
          /\ events[i].changes[item.key].newValue = Undefined

\* C9: when the host read throws, hasValue returns false, getValue returns the
\* default value, and neither throws.
C9_ReadFailureAbsorbed ==
    lastRead.failed
    => /\ ~lastRead.threw
       /\ lastRead.kind = "hasValue" => ~lastRead.has
       /\ lastRead.kind = "getValue" => lastRead.value = item.defaultValue

C9_Witness ==
    /\ lastRead.failed
    /\ lastRead.kind = "getValue"
    /\ item.area = AREA_MANAGED
    /\ lastRead.value = item.defaultValue
    /\ ~lastRead.threw

\* C10: constructing an item with an area outside {local, sync, managed} ends
\* in the invalid-area error, whether or not the host storage API is there.
C10_InvalidAreaThrows ==
    (lastCall.op = "construct" /\ lastCall.area \notin Areas)
    => lastCall.outcome = "invalid-area"

\* Degraded mode: the constructor left the item's area unset.
Degraded == Constructed /\ item.area = NoArea

\* C11 as stated: an item constructed while the host storage API is missing is
\* built without error, hasValue gives false and getValue the default, and
\* setValue and clearValue return without error and without a host write.
C11_DegradedAllNoOps ==
    /\ (lastCall.op = "construct" /\ ~hostAvailable)
          => (lastCall.outcome = "ok" /\ Degraded)
    /\ Degraded
          => /\ writes = <<>>
             /\ lastRead.kind = "hasValue" => (~lastRead.has /\ ~lastRead.threw)
             /\ lastRead.kind = "getValue"
                   => (lastRead.value = item.defaultValue /\ ~lastRead.threw)
             /\ lastCall.op \in {"setValue", "clearValue"}
                   => lastCall.outcome = "noop"

\* C11 as amended: the same, except that on a degraded item whose area name
\* is managed setValue and clearValue end in the not-permitted error (still
\* without a host write).
C11_DegradedNoOpsUnlessManaged ==
    /\ (lastCall.op = "construct" /\ ~hostAvailable)
          => (lastCall.outcome = "ok" /\ Degraded)
    /\ Degraded
          => /\ writes = <<>>
             /\ lastRead.kind = "hasValue" => (~lastRead.has /\ ~lastRead.threw)
             /\ lastRead.kind = "getValue"
                   => (lastRead.value = item.defaultValue /\ ~lastRead.threw)
             /\ lastCall.op \in {"setValue", "clearValue"}
                   => lastCall.outcome =
                         IF item.areaName = AREA_MANAGED THEN "not-permitted"
                         ELSE "noop"

C11_Witness ==
    /\ Degraded
    /\ item.areaName = AREA_LOCAL
    /\ lastCall.op = "clearValue"
    /\ lastCall.outcome = "noop"
    /\ store[AREA_LOCAL][item.key] # Undefined
    /\ writes = <<>>

\* C12: on an active local or sync item, a getValue whose host read finds no
\* entry for the key returns the default value; so does the first call made on
\* a fresh store.
C12_FreshItemGetsDefault ==
    (/\ lastRead.kind = "getValue"
     /\ item.area \in WritableAreas
     /\ lastRead.raw = Undefined \/ calls = 1)
    => lastRead.value = item.defaultValue

C12_Witness ==
    /\ lastRead.kind = "getValue"
    /\ item.area \in WritableAreas
    /\ calls = 1
    /\ store = EmptyStore
    /\ lastRead.value = item.defaultValue

NoDuplicates(q) == \A i, j \in DOMAIN q : q[i] = q[j] => i = j

\* C13: the observer set never holds a callback twice, so no change
\* notification calls a callback twice, and a callback whose unobserve has
\* returned (and that was not observed again) is not in the set.
C13_OneEntryPerCallback ==
    /\ NoDuplicates(observers)
    /\ NoDuplicates(lastDispatch.invoked)
    /\ unobserved \cap Range(observers) = {}

C13_Witness ==
    /\ lastCall.op = "observe"
    /\ lastCall.outcome = "present"
    /\ Len(observers) = 1

\* C14: while GlobalStorageObserver listens, every change notification the
\* host raises is dispatched on its onChanged sink once, with the same changes
\* and area name, and nothing is dispatched in any other step.
C14_ForwardsEveryEventVerbatim ==
    [][IF events # <<>> /\ events' = Tail(events)
       THEN globalObserver.listening
               => lastGlobal'.dispatched =
                     <<[changes |-> Head(events).changes,
                        areaName |-> Head(events).areaName]>>
       ELSE lastGlobal'.dispatched = <<>>]_vars

C14_Witness ==
    /\ globalObserver.listening
    /\ lastGlobal.event.areaName = AREA_MANAGED
    /\ DOMAIN lastGlobal.event.changes = Keys
    /\ lastGlobal.dispatched =
          <<[changes |-> lastGlobal.event.changes, areaName |-> AREA_MANAGED]>>

\* C15: when the host storage API is missing as the GlobalStorageObserver
\* module loads, no listener is registered and no error is raised.
C15_SilentWithoutHostApi ==
    ~globalObserver.listening => globalObserver.error = "none"

\* a comes before b in q.
Before(q, a, b) ==
    \E i, j \in DOMAIN q : i < j /\ q[i] = a /\ q[j] = b

\* q is the beginning of r.
IsPrefix(q, r) == Len(q) <= Len(r) /\ q = SubSeq(r, 1, Len(q))

\* C16: the listener runs on the notifications in the order the host queued
\* them, each as the host raises it; a newly registered observer comes after
\* those already registered, whose order never changes; and one notification
\* calls the observers in that order.
C16_DeliveryOrder ==
    [][/\ (item.listening /\ events # <<>> /\ events' = Tail(events))
            => /\ lastDispatch'.event = Head(events)
               /\ lastDispatch'.registered = observers
       /\ IsPrefix(lastDispatch'.invoked, lastDispatch'.registered)
       /\ \A a, b \in Range(observers') :
             /\ (a \in Range(observers) /\ b \in Range(observers))
                   => (Before(observers', a, b) <=> Before(observers, a, b))
             /\ (a \in Range(observers) /\ b \notin Range(observers))
                   => ~Before(observers', b, a)]_vars

C16_Witness ==
    /\ lastDispatch.matched
    /\ lastDispatch.registered = <<"cbB", "cbA">>
    /\ lastDispatch.invoked = <<"cbB", "cbA">>

\* C17: the mode is decided by the constructor from the host API's
\* availability at that moment, and no later step (an operation, a change of
\* the availability) changes the item's area or its listener.
C17_ModeFixedAtConstruction ==
    [][/\ (item.state = "unconstructed" /\ item'.state = "constructed")
            => (item'.area = NoArea <=> ~hostAvailable)
       /\ item.state = "constructed"
            => /\ item'.state = "constructed"
               /\ item'.area = item.area
               /\ item'.listening = item.listening]_vars

C17_Witness ==
    /\ Degraded
    /\ item.areaName = AREA_SYNC
    /\ hostAvailable
    /\ lastCall.op = "clearValue"
    /\ lastCall.outcome = "noop"

\* C19: apart from the writes of other actors, the store changes only when
\* the host carries out a setValue / clearValue of the item, and then only at
\* the item's key in the item's area; hasValue, getValue, observe and unobserve
\* (and every other step) leave the whole store as it is.
C19_OnlyOwnCellWritten ==
    [][lastCall'.op # "foreign"
        => \A a \in Areas, k \in Keys :
              store'[a][k] # store[a][k]
                 => /\ a = item.area
                    /\ k = item.key
                    /\ \E i \in DOMAIN writes :
                          writes[i].pc = "wait" /\ writes'[i].pc = "applied"]_vars

C19_Witness ==
    /\ Constructed
    /\ \E i \in DOMAIN writes :
          /\ writes[i].pc = "applied"
          /\ writes[i].kind = "set"
          /\ store[item.area][item.key] = writes[i].value
    /\ \E k \in Keys \ {item.key} :
          /\ store[item.area][k] # Undefined
          /\ store[item.area][k] # store[item.area][item.key]

\* C20: a degraded item has no host change listener: no change notification
\* calls its observers or dispatches on its sink, and the initial report of
\* observe(cb, true) is the only call a callback gets, with the default value.
C20_DegradedNeverNotified ==
    Degraded
    => /\ ~item.listening
       /\ ~lastDispatch.matched
       /\ lastDispatch.sink = <<>>
       /\ lastDispatch.invoked = <<>>
       /\ lastReport.cb # NoCb
             => (lastReport.value = item.defaultValue /\ ~lastReport.sawChange)

C20_Witness ==
    /\ Degraded
    /\ observers # <<>>
    /\ lastGlobal.event.areaName = item.areaName
    /\ item.key \in DOMAIN lastGlobal.event.changes
    /\ lastDispatch.invoked = <<>>
    /\ lastDispatch.sink = <<>>

\* Nothing is in flight: every read and write has returned and every change
\* notification has been raised.
Quiescent == reads = <<>> /\ writes = <<>> /\ events = <<>>

\* The item's effective value now.
CurrentEffective ==
    IF item.area = NoArea THEN item.defaultValue
    ELSE Effective(store[item.area][item.key])

\* C18: once nothing is in flight, the last value each callback got that was
\* registered by observe(cb, true) and is still registered is the item's
\* effective value.
C18_QuiescentObserversCurrent ==
    (Constructed /\ Quiescent)
    => \A cb \in Range(observers) :
          delivered[cb] # NotReporting => delivered[cb] = CurrentEffective

====
